---- MODULE Spec2Model ----
(***************************************************************************)
(* colordiff.py: a greedy threshold search over the RGB lattice.           *)
(*                                                                         *)
(* parse_args turns the command line (argv) into the configuration record  *)
(* args, or raises ValueError.  main seeds the list avoids, walks the      *)
(* lattice 255, 255-step, ... in each of r, g, b (b fastest), keeps every   *)
(* candidate whose colour difference to every member of avoids is not      *)
(* below args.gap, and finally sorts the kept colours by hue.              *)
(*                                                                         *)
(* Python lists are objects: heap maps an object name to its contents and  *)
(* args.avoid / avoids hold object names, so that two names for one list   *)
(* see each other's appends.                                               *)
(*                                                                         *)
(* colormath (sRGBColor, LabColor, HSVColor, convert_color,                *)
(* delta_e_cie2000) is a third-party library working on floating point     *)
(* numbers.  Hex parsing, hex formatting and the HSV hue are modelled      *)
(* exactly (the hue as a fraction).  The Lab conversion and the colour     *)
(* difference are modelled by integer stand-ins: the difference is a       *)
(* non-negative symmetric function of two Lab triples, and the run picks   *)
(* one of MetricIds for its whole duration.  new_from_rgb_hex raises       *)
(* ValueError on a string that int(.., 16) cannot read.                    *)
(***************************************************************************)
EXTENDS Integers, Sequences, FiniteSets, TLC

VARIABLES
    argv,           \* the command line: [step, gap, avoid, light, dark, role]; avoid = <<>> when -a is absent
    metricId,       \* which stand-in plays delta_e_cie2000 in this run
    pc,             \* "parse_args", "main", "loop", "sort", "done", or "raised" after a ValueError
    args,           \* the record parse_args returns; args.avoid is "None" or a heap object name
    heap,           \* list objects: name -> contents
    avoids,         \* main's local avoids: a heap object name
    r, g, b,        \* main's cursor
    colors,         \* main's result list, in discovery order
    colorCount,     \* the total main announces
    colorsChecked,  \* main's progress counter
    report,         \* the progress line logged by the latest iteration: <<checked, total>> or <<>>
    evaluated,      \* history: the (r, g, b) of every candidate constructed at line 95, in order
    colorString     \* the hue-sorted list main emits

vars == << argv, metricId, pc, args, heap, avoids, r, g, b, colors, colorCount,
           colorsChecked, report, evaluated, colorString >>

---------------------------------------------------------------------------
(* Bounds of the model *)

MaxAvoid == 2

Steps == {0, 100, 128, 255, 256}

Gaps == {0, 60}

MetricIds == {1, 2}

\* "U+FB00" stands for the single character LATIN SMALL LIGATURE FF
AvoidEntries ==
    { <<"F","F","F","F","F","F">>,
      <<"f","f","0","0","0","0">>,
      <<"G","G","G","G","G","G">>,
      <<"F","F","F","F","F">>,
      <<"U+FB00","0","0","0","0","0">> }

AvoidLists == UNION { [1..n -> AvoidEntries] : n \in 0..MaxAvoid }

---------------------------------------------------------------------------
(* Built-in palettes *)

DISCORD_LIGHT_COLORS ==
    << <<"0","0","0","0","0","0">>,
       <<"F","F","F","F","F","F">>,
       <<"F","2","F","3","F","5">> >>

DISCORD_DARK_COLORS ==
    << <<"D","C","D","D","D","E">>,
       <<"3","6","3","9","3","F">>,
       <<"2","F","3","1","3","6">> >>

DISCORD_ROLE_COLORS ==
    << <<"9","9","A","A","B","5">>,
       <<"0","0","C","0","9","A">>,
       <<"0","0","8","3","6","9">>,
       <<"0","0","D","1","6","6">>,
       <<"0","0","8","E","4","4">>,
       <<"0","0","9","9","E","1">>,
       <<"0","0","6","7","9","8">>,
       <<"A","6","5","2","B","B">>,
       <<"7","A","2","F","8","F">>,
       <<"F","D","0","0","6","1">>,
       <<"B","C","0","0","5","7">>,
       <<"F","8","C","3","0","0">>,
       <<"C","C","7","9","0","0">>,
       <<"F","9","3","A","2","F">>,
       <<"A","6","2","0","1","9">>,
       <<"9","1","A","6","A","6">>,
       <<"9","6","9","C","9","F">>,
       <<"5","9","7","E","8","D">>,
       <<"4","E","6","F","7","B">> >>

---------------------------------------------------------------------------
(* Characters and hex strings.  A string is a tuple of one-character       *)
(* strings.                                                                *)

UPPERHEX == <<"0","1","2","3","4","5","6","7","8","9","A","B","C","D","E","F">>

LOWERHEX == <<"0","1","2","3","4","5","6","7","8","9","a","b","c","d","e","f">>

Abs(x) == IF x < 0 THEN -x ELSE x

Max2(x, y) == IF x >= y THEN x ELSE y

Min2(x, y) == IF x <= y THEN x ELSE y

Range(s) == { s[i] : i \in 1..Len(s) }

\* str.upper() on one character: the upper-case string, one or two characters long
upperChar(c) ==
    CASE c = "a" -> <<"A">> [] c = "b" -> <<"B">> [] c = "c" -> <<"C">>
      [] c = "d" -> <<"D">> [] c = "e" -> <<"E">> [] c = "f" -> <<"F">>
      [] c = "g" -> <<"G">> [] c = "U+FB00" -> <<"F", "F">> [] OTHER -> << c >>

RECURSIVE upper(_)
\* str.upper(): the upper-case strings of the characters, joined
upper(s) == IF s = << >> THEN << >> ELSE upperChar(Head(s)) \o upper(Tail(s))

\* int(c, 16) for every hex digit of either case
DigitValues ==
    [ c \in Range(UPPERHEX) \cup Range(LOWERHEX) |->
        (CHOOSE i \in 1..16 : UPPERHEX[i] = upperChar(c)[1]) - 1 ]

DigitValue(c) == DigitValues[c]

\* sRGBColor.new_from_rgb_hex reads the string: six characters, each a digit int(.., 16) accepts
ParsesAsHex(hex) == Len(hex) = 6 /\ \A i \in 1..Len(hex) : hex[i] \in DOMAIN DigitValues

\* sRGBColor.new_from_rgb_hex: "RRGGBB" -> the upscaled (r, g, b)
hex_to_rgb(hex) ==
    << 16 * DigitValue(hex[1]) + DigitValue(hex[2]),
       16 * DigitValue(hex[3]) + DigitValue(hex[4]),
       16 * DigitValue(hex[5]) + DigitValue(hex[6]) >>

\* "%02x" of one channel
HexByte(n) == << LOWERHEX[(n \div 16) + 1], LOWERHEX[(n % 16) + 1] >>

\* sRGBColor(r, g, b, True).get_rgb_hex()[1:].upper()
rgb_to_hex(rgb) == upper(HexByte(rgb[1]) \o HexByte(rgb[2]) \o HexByte(rgb[3]))

---------------------------------------------------------------------------
(* Colour conversions and the difference metric *)

\* convert_color(sRGBColor(r, g, b, True), LabColor): lightness 0..100 and two
\* opponent axes (red-green, yellow-blue), in integers
rgb_to_lab(rgb) ==
    << (299 * rgb[1] + 587 * rgb[2] + 114 * rgb[3]) \div 2550,
       (rgb[1] - rgb[2]) \div 2,
       (rgb[1] + rgb[2] - 2 * rgb[3]) \div 4 >>

hex_to_lab(hex) == rgb_to_lab(hex_to_rgb(hex))

\* delta_e_cie2000(lab1, lab2): non-negative, symmetric, 0 on equal arguments
delta_e_cie2000(lab1, lab2) ==
    LET dL == Abs(lab1[1] - lab2[1])
        da == Abs(lab1[2] - lab2[2])
        db == Abs(lab1[3] - lab2[3])
    IN  IF metricId = 1 THEN dL + da + db
                        ELSE Max2(dL, Max2(da, db))

\* hex_to_hsv(hex).hsv_h as the fraction <<numerator, denominator>>, in [0, 360)
hex_to_hsv_h(hex) ==
    LET rgb == hex_to_rgb(hex)
        mx  == Max2(rgb[1], Max2(rgb[2], rgb[3]))
        mn  == Min2(rgb[1], Min2(rgb[2], rgb[3]))
        d   == mx - mn
    IN  IF d = 0 THEN << 0, 1 >>
        ELSE IF mx = rgb[1] THEN << (60 * (rgb[2] - rgb[3]) + 360 * d) % (360 * d), d >>
        ELSE IF mx = rgb[2] THEN << 60 * (rgb[3] - rgb[1]) + 120 * d, d >>
        ELSE << 60 * (rgb[1] - rgb[2]) + 240 * d, d >>

\* h1 < h2 on fractions with positive denominators
HueLess(h1, h2) == h1[1] * h2[2] < h2[1] * h1[2]

---------------------------------------------------------------------------
(* parse_args *)

\* the range test of line 199, negated: the step is accepted
ValidStep(step) == ~(step < 1 \/ step > 255)

\* the test of line 205, negated: the avoid entry is accepted
ValidColor(color) ==
    ~(Len(color) # 6 \/ ~(\A c \in Range(upper(color)) : c \in Range(UPPERHEX)))

\* parse_args raises ValueError on this command line
Raises(a) ==
    \/ ~ValidStep(a.step)
    \/ (a.avoid # << >> /\ \E i \in 1..Len(a.avoid) : ~ValidColor(a.avoid[i]))

parse_args ==
    /\ pc = "parse_args"
    /\ IF Raises(argv)
         THEN /\ pc' = "raised"
              /\ UNCHANGED << args, heap >>
         ELSE /\ pc' = "main"
              /\ args' = [ step   |-> argv.step,
                           gap    |-> argv.gap,
                           avoid  |-> IF argv.avoid = << >> THEN "None" ELSE "args.avoid",
                           discordLightModeColors |-> argv.light,
                           discordDarkModeColors  |-> argv.dark,
                           discordRoleColors      |-> argv.role ]
              /\ heap' = [heap EXCEPT !["args.avoid"] = argv.avoid]
    /\ UNCHANGED << argv, metricId, avoids, r, g, b, colors, colorCount,
                    colorsChecked, report, evaluated, colorString >>

---------------------------------------------------------------------------
(* main: set-up *)

\* list.extend: the contents of src are appended to the object dst
extend(h, dst, src) == [h EXCEPT ![dst] = h[dst] \o h[src]]

\* the object the local avoids names (line 74)
avoids_object(a) == IF a.avoid = "None" THEN "[]" ELSE a.avoid

\* lines 74-80 on the heap
construct_avoids(h, a) ==
    LET dst == avoids_object(a)
        h0  == IF a.avoid = "None" THEN [h EXCEPT !["[]"] = << >>] ELSE h
        h1  == IF a.discordLightModeColors THEN extend(h0, dst, "DISCORD_LIGHT_COLORS") ELSE h0
        h2  == IF a.discordDarkModeColors THEN extend(h1, dst, "DISCORD_DARK_COLORS") ELSE h1
        h3  == IF a.discordRoleColors THEN extend(h2, dst, "DISCORD_ROLE_COLORS") ELSE h2
    IN  h3

\* line 88: -(-255 // step) ** 3, Python's ** binding tighter than the leading minus
color_count(step) == -(((-255) \div step) ^ 3)

main ==
    /\ pc = "main"
    /\ avoids' = avoids_object(args)
    /\ heap' = construct_avoids(heap, args)
    /\ r' = 255
    /\ g' = 255
    /\ b' = 255
    /\ colors' = << >>
    /\ colorCount' = color_count(args.step)
    /\ colorsChecked' = 0
    /\ pc' = "loop"
    /\ UNCHANGED << argv, metricId, args, report, evaluated, colorString >>

---------------------------------------------------------------------------
(* main: one iteration of the search loop *)

RECURSIVE scan(_, _, _, _)
\* lines 102-108 from index i on: "False" at the first member closer than gap,
\* "ValueError" at the first member hex_to_lab cannot read, "True" at the end
scan(colorLab, avoidList, gap, i) ==
    IF i > Len(avoidList) THEN "True"
    ELSE IF ~ParsesAsHex(avoidList[i]) THEN "ValueError"
    ELSE IF delta_e_cie2000(colorLab, hex_to_lab(avoidList[i])) < gap THEN "False"
    ELSE scan(colorLab, avoidList, gap, i + 1)

\* variant of far: the scan stops one member short of the end of the list
far_skip_last(colorLab, avoidList, gap) ==
    scan(colorLab, SubSeq(avoidList, 1, Len(avoidList) - 1), gap, 1)

\* variant of far: only the first member of the list is compared
far_first_only(colorLab, avoidList, gap) ==
    scan(colorLab, SubSeq(avoidList, 1, 1), gap, 1)

\* lines 101-108: the value of far after the for loop ("True" or "False"), or
\* "ValueError" when hex_to_lab raised inside it
far(colorLab, avoidList, gap) == scan(colorLab, avoidList, gap, 1)

\* variant of add_far: the kept colour is appended to colors only
add_far_colors_only(h, ref, cols, colorHex, isFar) ==
    IF isFar
      THEN [ heap |-> h, colors |-> Append(cols, colorHex) ]
      ELSE [ heap |-> h, colors |-> cols ]

\* lines 111-114: the heap and the result list after the acceptance test
add_far(h, ref, cols, colorHex, isFar) ==
    IF isFar
      THEN [ heap   |-> [h EXCEPT ![ref] = Append(h[ref], colorHex)],
             colors |-> Append(cols, colorHex) ]
      ELSE [ heap |-> h, colors |-> cols ]

\* variant of advance: r is decremented first and b last
advance_r_fastest(r0, g0, b0, step) ==
    LET b1 == b0 - step
        g1 == g0 - step
        r1 == r0 - step
    IN  IF r1 >= 0 THEN [ r |-> r1, g |-> g0, b |-> b0, brk |-> FALSE ]
        ELSE IF g1 >= 0 THEN [ r |-> 255, g |-> g1, b |-> b0, brk |-> FALSE ]
        ELSE [ r |-> 255, g |-> 255, b |-> b1, brk |-> b1 < 0 ]

\* lines 116-124: the cursor after the decrements, and whether the loop breaks
advance(r0, g0, b0, step) ==
    LET b1 == b0 - step
        g1 == g0 - step
        r1 == r0 - step
    IN  IF b1 >= 0 THEN [ r |-> r0, g |-> g0, b |-> b1, brk |-> FALSE ]
        ELSE IF g1 >= 0 THEN [ r |-> r0, g |-> g1, b |-> 255, brk |-> FALSE ]
        ELSE [ r |-> r1, g |-> 255, b |-> 255, brk |-> r1 < 0 ]

loop ==
    /\ pc = "loop"
    /\ \E colorRgb \in { << r, g, b >> } :
       \E colorHex \in { rgb_to_hex(colorRgb) } :
       \E colorLab \in { rgb_to_lab(colorRgb) } :
       \E isFar \in { far(colorLab, heap[avoids], args.gap) } :
       \E added \in { add_far(heap, avoids, colors, colorHex, isFar = "True") } :
       \E next \in { advance(r, g, b, args.step) } :
           /\ evaluated' = Append(evaluated, colorRgb)
           /\ IF isFar = "ValueError"
                \* line 103 raised: main is left with the exception
                THEN /\ pc' = "raised"
                     /\ UNCHANGED << heap, colors, r, g, b, colorsChecked, report >>
                ELSE /\ heap' = added.heap
                     /\ colors' = added.colors
                     /\ r' = next.r
                     /\ g' = next.g
                     /\ b' = next.b
                     /\ IF next.brk
                          THEN /\ pc' = "sort"
                               /\ UNCHANGED << colorsChecked, report >>
                          ELSE /\ pc' = "loop"
                               /\ colorsChecked' = colorsChecked + 1
                               \* line 127: whether a second has passed is the clock's choice
                               /\ \E elapsed \in BOOLEAN :
                                    report' = IF elapsed THEN << colorsChecked + 1, colorCount >>
                                                         ELSE << >>
    /\ UNCHANGED << argv, metricId, args, avoids, colorCount, colorString >>

---------------------------------------------------------------------------
(* main: the final sort *)

\* s with x put after every element whose hue is not greater than x's
insert(s, x) ==
    LET k == Cardinality({ i \in 1..Len(s) : ~HueLess(hex_to_hsv_h(x), hex_to_hsv_h(s[i])) })
    IN  SubSeq(s, 1, k) \o << x >> \o SubSeq(s, k + 1, Len(s))

\* variant of insert: x is put before the elements of equal hue
insert_before_equal(s, x) ==
    LET k == Cardinality({ i \in 1..Len(s) : HueLess(hex_to_hsv_h(s[i]), hex_to_hsv_h(x)) })
    IN  SubSeq(s, 1, k) \o << x >> \o SubSeq(s, k + 1, Len(s))

RECURSIVE sorted_unstable(_)
\* variant of sorted: equal hues come out in reverse discovery order
sorted_unstable(s) ==
    IF s = << >> THEN << >>
    ELSE insert_before_equal(sorted_unstable(SubSeq(s, 1, Len(s) - 1)), s[Len(s)])

RECURSIVE sorted(_)
\* sorted(colors, key = hue): ascending, equal keys in their original order
sorted(s) ==
    IF s = << >> THEN << >>
    ELSE insert(sorted(SubSeq(s, 1, Len(s) - 1)), s[Len(s)])

sort ==
    /\ pc = "sort"
    /\ colorString' = sorted(colors)
    /\ pc' = "done"
    /\ UNCHANGED << argv, metricId, args, heap, avoids, r, g, b, colors, colorCount,
                    colorsChecked, report, evaluated >>

---------------------------------------------------------------------------
(* The program *)

Argv == [ step : Steps, gap : Gaps, avoid : AvoidLists,
          light : BOOLEAN, dark : BOOLEAN, role : BOOLEAN ]

Init ==
    /\ argv \in Argv
    /\ metricId \in MetricIds
    /\ pc = "parse_args"
    /\ args = [ step |-> 0, gap |-> 0, avoid |-> "None",
                discordLightModeColors |-> FALSE,
                discordDarkModeColors  |-> FALSE,
                discordRoleColors      |-> FALSE ]
    /\ heap = [ o \in { "args.avoid", "[]", "DISCORD_LIGHT_COLORS",
                        "DISCORD_DARK_COLORS", "DISCORD_ROLE_COLORS" } |->
                  CASE o = "DISCORD_LIGHT_COLORS" -> DISCORD_LIGHT_COLORS
                    [] o = "DISCORD_DARK_COLORS"  -> DISCORD_DARK_COLORS
                    [] o = "DISCORD_ROLE_COLORS"  -> DISCORD_ROLE_COLORS
                    [] OTHER -> << >> ]
    /\ avoids = "None"
    /\ r = 0
    /\ g = 0
    /\ b = 0
    /\ colors = << >>
    /\ colorCount = 0
    /\ colorsChecked = 0
    /\ report = << >>
    /\ evaluated = << >>
    /\ colorString = << >>

Next == parse_args \/ main \/ loop \/ sort

Spec == Init /\ [][Next]_vars

---------------------------------------------------------------------------
(* Vocabulary of the properties *)

Searching == pc \in { "loop", "sort", "done" }

Finished == pc \in { "sort", "done" }

Last(s) == s[Len(s)]

\* the avoid colours main starts from, read off the command line
Seed(a) ==
    a.avoid
      \o (IF a.light THEN DISCORD_LIGHT_COLORS ELSE << >>)
      \o (IF a.dark THEN DISCORD_DARK_COLORS ELSE << >>)
      \o (IF a.role THEN DISCORD_ROLE_COLORS ELSE << >>)

\* the colour difference of two hex colours
Diff(hex1, hex2) == delta_e_cie2000(hex_to_lab(hex1), hex_to_lab(hex2))

\* member is a colour whose difference to hex is below gap
Closer(hex, member, gap) == ParsesAsHex(member) /\ Diff(hex, member) < gap

\* ceil(256 / S) ^ 3
LatticeSize(S) == ((256 + S - 1) \div S) ^ 3

\* p comes before q in descending lexicographic order of (r, g, b)
LexGreater(p, q) ==
    \/ p[1] > q[1]
    \/ p[1] = q[1] /\ p[2] > q[2]
    \/ p[1] = q[1] /\ p[2] = q[2] /\ p[3] > q[3]

\* the lattice point after p, by the rule of the traversal order
Successor(p, S) ==
    IF p[3] - S >= 0 THEN << p[1], p[2], p[3] - S >>
    ELSE IF p[2] - S >= 0 THEN << p[1], p[2] - S, 255 >>
    ELSE << p[1] - S, 255, 255 >>

OnLattice(x, S) == x \in 0..255 /\ (255 - x) % S = 0

HexDigit(c) == c \in Range(UPPERHEX) \cup Range(LOWERHEX)

\* exactly six hex digits, of either case
SixHexDigits(h) == Len(h) = 6 /\ \A i \in 1..Len(h) : HexDigit(h[i])

ValidArgv(a) ==
    /\ a.step >= 1
    /\ a.step <= 255
    /\ \A i \in 1..Len(a.avoid) : SixHexDigits(a.avoid[i])

---------------------------------------------------------------------------
(* C1: greedy separation.  The colour most recently appended to colors is  *)
(* at least gap away from every member that avoids held before the append; *)
(* and in the final result every colour is at least gap away from every    *)
(* seeded avoid colour and from every colour found before it.              *)
C1_GreedySeparation ==
    /\ (Searching /\ colors # << >>) =>
          LET n == Len(heap[avoids])
          IN  \A k \in 1..(n - 1) : Diff(Last(colors), heap[avoids][k]) >= args.gap
    /\ pc = "done" =>
          \A i \in 1..Len(colors) :
             /\ \A a \in Range(Seed(argv)) : Diff(colors[i], a) >= args.gap
             /\ \A j \in 1..(i - 1) : Diff(colors[i], colors[j]) >= args.gap

\* a finished search with a positive gap and a seeded list that kept several
\* colours and rejected others
C1_Witness ==
    /\ pc = "done"
    /\ args.gap > 0
    /\ Seed(argv) # << >>
    /\ Len(colors) >= 2
    /\ Len(colors) < Len(evaluated)

---------------------------------------------------------------------------
(* C2: the loop terminates having evaluated exactly ceil(256/S)^3 lattice  *)
(* points, each once, and it stops only when decrementing r takes it below *)
(* 0.  While the loop runs r is not negative and fewer than ceil(256/S)^3  *)
(* points have been evaluated; once the loop has been left r is below 0    *)
(* and exactly ceil(256/S)^3 distinct points have been evaluated.          *)
C2_LoopTerminates ==
    /\ pc = "loop" =>
          /\ r >= 0
          /\ Len(evaluated) < LatticeSize(args.step)
    /\ (pc # "loop" /\ evaluated # << >>) =>
          /\ r < 0
          /\ Len(evaluated) = LatticeSize(args.step)
          /\ \A i, j \in 1..Len(evaluated) : i # j => evaluated[i] # evaluated[j]

---------------------------------------------------------------------------
(* C3: traversal order.  The first candidate is (255,255,255); each next   *)
(* candidate is the successor of the one before (b fastest, r slowest,     *)
(* reset to 255 on underflow), hence strictly smaller lexicographically;   *)
(* every candidate has r, g, b in [0,255] of the form 255 - k*S.           *)
C3_TraversalOrder ==
    /\ pc = "loop" =>
          << r, g, b >> = IF evaluated = << >> THEN << 255, 255, 255 >>
                          ELSE Successor(Last(evaluated), args.step)
    /\ evaluated # << >> => evaluated[1] = << 255, 255, 255 >>
    /\ \A i \in 1..(Len(evaluated) - 1) :
          /\ evaluated[i + 1] = Successor(evaluated[i], args.step)
          /\ LexGreater(evaluated[i], evaluated[i + 1])
    /\ \A i \in 1..Len(evaluated) :
          \A c \in 1..3 : OnLattice(evaluated[i][c], args.step)

\* a search that has wrapped b and g at a stride that leaves a remainder
C3_Witness ==
    /\ args.step = 100
    /\ Len(evaluated) >= 10
    /\ \E i \in 1..(Len(evaluated) - 1) :
          evaluated[i][1] > evaluated[i + 1][1] /\ evaluated[i + 1] = << 155, 255, 255 >>

---------------------------------------------------------------------------
(* C4: fail-fast validation.  A command line with a step outside [1,255]   *)
(* or an avoid entry that is not exactly six hex digits (of either case)   *)
(* makes parse_args raise, and no lattice point is ever evaluated; a valid *)
(* command line never raises.                                              *)
C4_FailFast ==
    /\ ~ValidArgv(argv) =>
          /\ pc \in { "parse_args", "raised" }
          /\ evaluated = << >>
    /\ ValidArgv(argv) => pc # "raised"

---------------------------------------------------------------------------
(* C5: with gap 0 every lattice point is accepted, whatever the stride and *)
(* the avoid list: every point evaluated so far is in the result list, the *)
(* result list of a search that is over holds all ceil(256/S)^3 points,    *)
(* and with step 255 and no avoid colours it is exactly the 8 cube         *)
(* corners.                                                                *)
C5_GapZeroAcceptsAll ==
    (Searching \/ evaluated # << >>) /\ args.gap = 0 =>
        /\ colors = [ i \in 1..Len(evaluated) |-> rgb_to_hex(evaluated[i]) ]
        /\ pc # "loop" => Len(colors) = LatticeSize(args.step)
        /\ (pc = "done" /\ args.step = 255 /\ Seed(argv) = << >>) =>
              /\ Len(colors) = 8
              /\ Range(colors) = { rgb_to_hex(<< x, y, z >>) : x, y, z \in { 0, 255 } }
              /\ Range(colorString) = Range(colors)

---------------------------------------------------------------------------
(* C6: rejection is order-independent.  The candidate evaluated last was   *)
(* rejected exactly when some member that avoids held at its check is      *)
(* closer than gap.  And every candidate is kept by the scan over the      *)
(* list that a search started from any rearrangement of the caller's avoid *)
(* entries would hold (the rearranged entries, the same palettes, the      *)
(* colours kept so far) exactly when it is kept by the scan over avoids:   *)
(* that search keeps the same candidates, so its result list is the same,  *)
(* in the same order.                                                      *)

\* every other arrangement of the entries of list
Rearrangements(list) ==
    { [ i \in 1..Len(list) |-> list[p[i]] ] : p \in Permutations(1..Len(list)) } \ { list }

---------------------------------------------------------------------------
(* C7: the emitted list is a permutation of the result list, ascending in  *)
(* hue, colours of equal hue in discovery order; nothing is emitted before *)
(* the enumeration has completed.                                          *)

Occurrences(s, x) == Cardinality({ i \in 1..Len(s) : s[i] = x })

\* the position of x in the result list
Discovery(x) == CHOOSE i \in 1..Len(colors) : colors[i] = x

C7_ResultOrdering ==
    /\ pc # "done" => colorString = << >>
    /\ pc = "done" =>
          /\ Len(colorString) = Len(colors)
          /\ \A i \in 1..Len(colors) :
                Occurrences(colorString, colors[i]) = Occurrences(colors, colors[i])
          /\ \A i \in 1..(Len(colorString) - 1) :
                LET h1 == hex_to_hsv_h(colorString[i])
                    h2 == hex_to_hsv_h(colorString[i + 1])
                IN  /\ ~HueLess(h2, h1)
                    /\ ~HueLess(h1, h2) =>
                          Discovery(colorString[i]) < Discovery(colorString[i + 1])

\* an emitted list that differs from the discovery order and holds two
\* neighbours of equal hue
C7_Witness ==
    /\ pc = "done"
    /\ colorString # colors
    /\ \E i \in 1..(Len(colorString) - 1) :
          /\ hex_to_hsv_h(colorString[i]) = hex_to_hsv_h(colorString[i + 1])
          /\ colorString[i] # colorString[i + 1]

---------------------------------------------------------------------------
(* C8: the total main announces, colorCount, is the number of lattice      *)
(* points the loop evaluates, ceil(256/S)^3, and no progress report shows  *)
(* more points checked than that total.                                    *)
C8_AnnouncedTotal ==
    /\ Searching => colorCount = LatticeSize(args.step)
    /\ Finished => colorCount = Len(evaluated)
    /\ report # << >> => report[1] <= report[2]

---------------------------------------------------------------------------
(* C9: avoids is the seed list (caller's entries, then the selected light, *)
(* dark and role palettes) followed by the result list; an iteration       *)
(* either appends one and the same hex to both lists or leaves both as     *)
(* they are.                                                               *)
C9_AvoidsLockStep ==
    /\ [](Searching => heap[avoids] = Seed(argv) \o colors)
    /\ [][pc = "loop" =>
            \/ /\ heap'[avoids'] = heap[avoids]
               /\ colors' = colors
            \/ /\ colors' = Append(colors, rgb_to_hex(<< r, g, b >>))
               /\ heap'[avoids'] = Append(heap[avoids], rgb_to_hex(<< r, g, b >>))]_vars

\* a search with a non-empty seed that has kept one candidate and rejected
\* another
C9_Witness ==
    /\ pc = "loop"
    /\ Seed(argv) # << >>
    /\ colors # << >>
    /\ Len(colors) < Len(evaluated)
    /\ Len(heap[avoids]) = Len(Seed(argv)) + Len(colors)

---------------------------------------------------------------------------
(* C10: main leaves the caller's configuration record and the built-in     *)
(* palettes as they were: after main args.avoid holds exactly the entries  *)
(* the caller passed, and the three palettes hold their constants.         *)
C10_CallerStateUntouched ==
    pc = "done" =>
        /\ args.avoid # "None" => heap[args.avoid] = argv.avoid
        /\ heap["DISCORD_LIGHT_COLORS"] = DISCORD_LIGHT_COLORS
        /\ heap["DISCORD_DARK_COLORS"] = DISCORD_DARK_COLORS
        /\ heap["DISCORD_ROLE_COLORS"] = DISCORD_ROLE_COLORS

====
